---------------------------- MODULE Spec2Model ----------------------------
(***************************************************************************)
(* A model of the parser of the Liquid template compiler                   *)
(* (liquid-compiler/src/parser.rs, liquid-compiler/src/token.rs), of the   *)
(* evaluation of a filter chain (src/interpreter/output.rs) and of the     *)
(* comment block (src/tags/comment_block.rs).                              *)
(*                                                                         *)
(* Tokens, elements and expressions are records; a Rust Result is a record *)
(* with res = "Ok" | "Err", and an abort (an index out of bounds) is the   *)
(* third outcome res = "Panic".  An Option is a sequence of length 0 or 1. *)
(* The back quotes of the error texts of the source are written as single  *)
(* quotes.                                                                 *)
(***************************************************************************)
EXTENDS Integers, Sequences, FiniteSets, TLC

VARIABLES
    options,     \* the LiquidOptions of the call: [tags, blocks], sets of registered names
    context,     \* the Context of a render: [globals, filters], <<>> while parsing
    running,     \* apply_filters: the running value (its entry); render: the value rendered
    tokens,      \* the token slice handed to parse_output / parse_indexes
    src,         \* the structure the token slice was written from (SpecChain), or <<>>
    elements,    \* the element slice handed to parse / split_block
    delimiters,  \* the delimiter names handed to split_block
    iter,        \* parse: the number of elements the shared cursor has yielded
    ret,         \* parse: the nodes accumulated so far
    calls,       \* the handler dispatches made so far, in order
    pc,          \* "ready" | "parse" | "apply" | "returned" | "rendered"
    op,          \* the operation that was called, "none" before the call
    result       \* the value the operation returned

vars == <<options, context, running, tokens, src, elements, delimiters, iter, ret, calls, pc, op, result>>

----------------------------------------------------------------------------
(* Bounds of the model. *)

MaxTokens == 4
MaxFilterTokens == 5
MaxElements == 5
MaxBody == 5
MaxAccessors == 2
MaxFilters == 2
MaxArguments == 2

----------------------------------------------------------------------------
(* Results. *)

Ok(v) == [res |-> "Ok", val |-> v]
Err(e) == [res |-> "Err", err |-> e]
Panic == [res |-> "Panic"]

(* The sequences over S of length at most n. *)
SeqsUpTo(S, n) == UNION {[1..k -> S] : k \in 0..n}

----------------------------------------------------------------------------
(* token.rs: Token *)

Pipe == [kind |-> "Pipe"]
Dot == [kind |-> "Dot"]
Colon == [kind |-> "Colon"]
Comma == [kind |-> "Comma"]
OpenSquare == [kind |-> "OpenSquare"]
CloseSquare == [kind |-> "CloseSquare"]
DotDot == [kind |-> "DotDot"]
Identifier(x) == [kind |-> "Identifier", text |-> x]
StringLiteral(x) == [kind |-> "StringLiteral", text |-> x]
IntegerLiteral(n) == [kind |-> "IntegerLiteral", num |-> n]
FloatLiteral(n) == [kind |-> "FloatLiteral", num |-> n]
BooleanLiteral(b) == [kind |-> "BooleanLiteral", bool |-> b]

(* The decimal text of a small integer, as write!(f, "{}", x) prints it. *)
IntToString(n) ==
    CASE n = 0 -> "0" [] n = 1 -> "1" [] n = 2 -> "2" [] n = 3 -> "3" [] OTHER -> "int"

(* impl fmt::Display for Token *)
Display(t) ==
    CASE t.kind = "Pipe" -> "|"
      [] t.kind = "Dot" -> "."
      [] t.kind = "Colon" -> ":"
      [] t.kind = "Comma" -> ","
      [] t.kind = "OpenSquare" -> "["
      [] t.kind = "CloseSquare" -> "]"
      [] t.kind = "DotDot" -> ".."
      [] t.kind \in {"Identifier", "StringLiteral"} -> t.text
      [] t.kind \in {"IntegerLiteral", "FloatLiteral"} -> IntToString(t.num)
      [] t.kind = "BooleanLiteral" -> (IF t.bool THEN "true" ELSE "false")

(* Value::scalar *)
Scalar(type, v) == [type |-> type, v |-> v]

(* Expression::Literal, Expression::Variable; a Variable is its path, a       *)
(* non-empty sequence of expressions.                                         *)
Literal(value) == [expr |-> "Literal", value |-> value]
Variable(path) == [expr |-> "Variable", path |-> path]
with_literal(type, v) == Literal(Scalar(type, v))
Variable_with_literal(x) == Variable(<<with_literal("str", x)>>)
extend(var, indexes) == Variable(var.path \o indexes)

(* id.split('.') on the identifiers of the model: "p.q" is the one with a dot. *)
SplitDot(id) == IF id = "p.q" THEN <<"p", "q">> ELSE <<id>>

(* unexpected_token_error / unexpected_token_error_string:                   *)
(* "Expected {expected}, found '{actual}'", actual "nothing" when None.      *)
unexpected_token_error(expected, actual) ==
    [error |-> "UnexpectedToken",
     expected |-> expected,
     actual |-> IF actual = <<>> THEN "nothing" ELSE Display(actual[1])]

VALUE_EXPECTED == "string | number | boolean | identifier"

(* Token::to_arg *)
to_arg(t) ==
    CASE t.kind = "IntegerLiteral" -> Ok(with_literal("int", t.num))
      [] t.kind = "FloatLiteral" -> Ok(with_literal("float", t.num))
      [] t.kind = "StringLiteral" -> Ok(with_literal("str", t.text))
      [] t.kind = "BooleanLiteral" -> Ok(with_literal("bool", t.bool))
      [] t.kind = "Identifier" ->
            LET path == SplitDot(t.text)
            IN Ok(extend(Variable_with_literal(path[1]),
                         [i \in 1..(Len(path) - 1) |-> with_literal("str", path[i + 1])]))
      [] OTHER -> Err(unexpected_token_error(VALUE_EXPECTED, <<t>>))

----------------------------------------------------------------------------
(* parser.rs: parse_indexes.  One unfolding is one turn of the while loop, *)
(* toks being the slice that is left and indexes the accessors pushed.      *)

Rest(toks, n) == SubSeq(toks, n + 1, Len(toks))

(* A loop that reads a bracketed string as a variable reference. *)
RECURSIVE parse_indexes_loop_mutant(_, _)
parse_indexes_loop_mutant(toks, indexes) ==
    IF Len(toks) = 0 THEN Ok(indexes)
    ELSE IF toks[1] = Dot /\ Len(toks) > 1 THEN
        IF toks[2].kind = "Identifier"
        THEN parse_indexes_loop_mutant(Rest(toks, 2),
                                       Append(indexes, with_literal("str", toks[2].text)))
        ELSE Err(unexpected_token_error("identifier", <<toks[1]>>))
    ELSE IF toks[1] = OpenSquare /\ Len(toks) > 2 THEN
        IF toks[2].kind \notin {"StringLiteral", "IntegerLiteral", "Identifier"}
        THEN Err(unexpected_token_error("string | whole number | identifier", <<toks[1]>>))
        ELSE IF toks[3] # CloseSquare
        THEN Err(unexpected_token_error("']'", <<toks[1]>>))
        ELSE parse_indexes_loop_mutant(Rest(toks, 3),
                Append(indexes,
                       CASE toks[2].kind = "StringLiteral" -> Variable_with_literal(toks[2].text)
                         [] toks[2].kind = "IntegerLiteral" -> with_literal("int", toks[2].num)
                         [] toks[2].kind = "Identifier" -> Variable_with_literal(toks[2].text)))
    ELSE Ok(indexes)

RECURSIVE parse_indexes_loop(_, _)
parse_indexes_loop(toks, indexes) ==
    IF Len(toks) = 0 THEN Ok(indexes)
    ELSE IF toks[1] = Dot /\ Len(toks) > 1 THEN
        IF toks[2].kind = "Identifier"
        THEN parse_indexes_loop(Rest(toks, 2), Append(indexes, with_literal("str", toks[2].text)))
        ELSE Err(unexpected_token_error("identifier", <<toks[1]>>))
    ELSE IF toks[1] = OpenSquare /\ Len(toks) > 2 THEN
        IF toks[2].kind \notin {"StringLiteral", "IntegerLiteral", "Identifier"}
        THEN Err(unexpected_token_error("string | whole number | identifier", <<toks[1]>>))
        ELSE IF toks[3] # CloseSquare
        THEN Err(unexpected_token_error("']'", <<toks[1]>>))
        ELSE parse_indexes_loop(Rest(toks, 3),
                Append(indexes,
                       CASE toks[2].kind = "StringLiteral" -> with_literal("str", toks[2].text)
                         [] toks[2].kind = "IntegerLiteral" -> with_literal("int", toks[2].num)
                         [] toks[2].kind = "Identifier" -> Variable_with_literal(toks[2].text)))
    ELSE Ok(indexes)

parse_indexes(toks) == parse_indexes_loop(toks, <<>>)

----------------------------------------------------------------------------
(* parser.rs: expect, on a cursor i over toks (the next token is toks[i]). *)

Next_token(toks, i) == IF i <= Len(toks) THEN <<toks[i]>> ELSE <<>>

(* An expect that reports nothing as the token found. *)
expect_mutant(toks, i, expected) ==
    IF i <= Len(toks) /\ toks[i] = expected
    THEN Ok(toks[i])
    ELSE Err(unexpected_token_error("'" \o Display(expected) \o "'", <<>>))

expect(toks, i, expected) ==
    IF i <= Len(toks) /\ toks[i] = expected
    THEN Ok(toks[i])
    ELSE Err(unexpected_token_error("'" \o Display(expected) \o "'", Next_token(toks, i)))

(* FilterCall::new, FilterChain::new *)
FilterCall(name, arguments) == [name |-> name, arguments |-> arguments]
FilterChain(entry, filters) == [entry |-> entry, filters |-> filters]

(* A first_pipe that finds the last pipe instead of the first. *)
first_pipe_mutant(toks) ==
    LET pipes == {i \in 1..Len(toks) : toks[i] = Pipe}
    IN IF pipes = {} THEN Len(toks)
       ELSE (CHOOSE i \in pipes : \A j \in pipes : i >= j) - 1

(* parse_output, lines 131-136: the index of the first pipe, counted from 0, *)
(* or the length of the slice.                                                *)
first_pipe(toks) ==
    LET pipes == {i \in 1..Len(toks) : toks[i] = Pipe}
    IN IF pipes = {} THEN Len(toks)
       ELSE (CHOOSE i \in pipes : \A j \in pipes : i <= j) - 1

(* parse_output, lines 170-187: the argument list after the colon; i is the *)
(* cursor; returns the arguments and the cursor after them.                  *)
RECURSIVE parse_arguments(_, _, _)
parse_arguments(toks, i, args) ==
    IF i > Len(toks) \/ toks[i] = Pipe THEN Ok([next |-> i, args |-> args])
    ELSE LET arg == to_arg(toks[i])
         IN IF arg.res = "Err" THEN arg
            ELSE IF i + 1 <= Len(toks) /\ toks[i + 1] = Comma
                 THEN parse_arguments(toks, i + 2, Append(args, arg.val))
            ELSE IF i + 1 > Len(toks) \/ toks[i + 1] = Pipe
                 THEN Ok([next |-> i + 1, args |-> Append(args, arg.val)])
            ELSE Err(unexpected_token_error("',' | '|'", <<toks[i + 1]>>))

(* parse_output, lines 148-190: the filter loop. *)
RECURSIVE parse_filters(_, _, _)
parse_filters(toks, i, filters) ==
    IF i > Len(toks) THEN Ok(filters)
    ELSE LET pipe == expect(toks, i, Pipe)
         IN IF pipe.res = "Err" THEN pipe
            ELSE IF i + 1 > Len(toks) \/ toks[i + 1].kind # "Identifier"
                 THEN Err(unexpected_token_error("identifier", Next_token(toks, i + 1)))
            ELSE IF i + 2 > Len(toks) \/ toks[i + 2] = Pipe
                 THEN parse_filters(toks, i + 2, Append(filters, FilterCall(toks[i + 1].text, <<>>)))
            ELSE LET colon == expect(toks, i + 2, Colon)
                 IN IF colon.res = "Err" THEN colon
                    ELSE LET a == parse_arguments(toks, i + 3, <<>>)
                         IN IF a.res = "Err" THEN a
                            ELSE parse_filters(toks, a.val.next,
                                    Append(filters, FilterCall(toks[i + 1].text, a.val.args)))

(* An entry that rejects a token between a literal and the first pipe. *)
parse_entry_mutant(toks) ==
    IF Len(toks) = 0 THEN Panic
    ELSE LET entry == to_arg(toks[1])
         IN IF entry.res = "Err" THEN entry
            ELSE IF entry.val.expr = "Variable"
                 THEN LET indexes == parse_indexes(SubSeq(toks, 2, first_pipe(toks)))
                      IN IF indexes.res = "Err" THEN indexes
                         ELSE Ok(extend(entry.val, indexes.val))
            ELSE IF first_pipe(toks) > 1
                 THEN Err(unexpected_token_error("'|'", <<toks[2]>>))
            ELSE entry

(* parse_output, lines 138-142: the entry; tokens[0] aborts on an empty slice. *)
parse_entry(toks) ==
    IF Len(toks) = 0 THEN Panic
    ELSE LET entry == to_arg(toks[1])
         IN IF entry.res = "Err" THEN entry
            ELSE IF entry.val.expr = "Variable"
                 THEN LET indexes == parse_indexes(SubSeq(toks, 2, first_pipe(toks)))
                      IN IF indexes.res = "Err" THEN indexes
                         ELSE Ok(extend(entry.val, indexes.val))
            ELSE entry

parse_output(toks) ==
    LET entry == parse_entry(toks)
    IN IF entry.res # "Ok" THEN entry
       ELSE LET filters == parse_filters(Rest(toks, first_pipe(toks)), 1, <<>>)
            IN IF filters.res = "Err" THEN filters
               ELSE Ok(FilterChain(entry.val, filters.val))

----------------------------------------------------------------------------
(* The token slices of the model: every slice of at most MaxTokens tokens,  *)
(* and the slices made of a one-token entry and a filter section of at most *)
(* MaxFilterTokens tokens after its pipe.                                    *)

TokenUniverse ==
    {Pipe, Dot, Colon, Comma, OpenSquare, CloseSquare, DotDot,
     Identifier("a"), StringLiteral("s"), IntegerLiteral(0)}

FilterUniverse ==
    {Pipe, Colon, Comma, DotDot, Identifier("f"), StringLiteral("1")}

TokenSlices ==
    SeqsUpTo(TokenUniverse, MaxTokens)
    \cup {<<e, Pipe>> \o t : e \in {Identifier("a"), StringLiteral("s")},
                             t \in SeqsUpTo(FilterUniverse, MaxFilterTokens)}

NoOptions == [tags |-> {}, blocks |-> {}]

InitTokens ==
    /\ tokens \in TokenSlices
    /\ src = <<>>
    /\ context = <<>>
    /\ running = <<>>
    /\ options = NoOptions
    /\ elements = <<>>
    /\ delimiters = {}
    /\ iter = 0
    /\ ret = <<>>
    /\ calls = <<>>
    /\ pc = "ready"
    /\ op = "none"
    /\ result = <<>>

CallParseOutput ==
    /\ pc = "ready"
    /\ op' = "parse_output"
    /\ result' = parse_output(tokens)
    /\ pc' = "returned"
    /\ UNCHANGED <<options, context, running, tokens, src, elements, delimiters, iter, ret, calls>>

CallParseIndexes ==
    /\ pc = "ready"
    /\ op' = "parse_indexes"
    /\ result' = parse_indexes(tokens)
    /\ pc' = "returned"
    /\ UNCHANGED <<options, context, running, tokens, src, elements, delimiters, iter, ret, calls>>

NextTokens == CallParseOutput \/ CallParseIndexes

SpecTokens == InitTokens /\ [][NextTokens]_vars

----------------------------------------------------------------------------
(* The chains of the model: a token slice written from a structure          *)
(* [entry, accessors, filters] by the grammar                                *)
(*   value accessor* ( '|' identifier [ ':' value ( ',' value )* ] )*        *)

EntryTokens == {Identifier("a"), Identifier("p.q"), StringLiteral("s")}
ArgumentTokens == {StringLiteral("1"), Identifier("a")}

DotAccessor(name) == [acc |-> "dot", token |-> Identifier(name)]
IndexAccessor(t) == [acc |-> "index", token |-> t]
Accessors == {DotAccessor("b"), IndexAccessor(IntegerLiteral(0)), IndexAccessor(Identifier("i"))}

(* A filter "f" with every argument list, and a filter "g" without arguments. *)
FilterSources ==
    {[name |-> "f", args |-> a] : a \in SeqsUpTo(ArgumentTokens, MaxArguments)}
    \cup {[name |-> "g", args |-> <<>>]}

(* Every accessor chain with at most one filter, and every filter section  *)
(* after at most one accessor: the two parts are parsed apart, split at the  *)
(* first pipe.                                                               *)
ChainSources ==
    [entry : EntryTokens,
     accessors : SeqsUpTo(Accessors, MaxAccessors),
     filters : SeqsUpTo(FilterSources, 1)]
    \cup
    [entry : EntryTokens,
     accessors : SeqsUpTo(Accessors, 1),
     filters : SeqsUpTo(FilterSources, MaxFilters)]

RECURSIVE Concat(_)
Concat(ss) == IF ss = <<>> THEN <<>> ELSE ss[1] \o Concat(Tail(ss))

WriteAccessor(a) ==
    IF a.acc = "dot" THEN <<Dot, a.token>> ELSE <<OpenSquare, a.token, CloseSquare>>

WriteArguments(args) ==
    Concat([i \in 1..Len(args) |-> IF i = 1 THEN <<Colon, args[i]>> ELSE <<Comma, args[i]>>])

WriteFilter(f) == <<Pipe, Identifier(f.name)>> \o WriteArguments(f.args)

WriteChain(c) ==
    <<c.entry>>
    \o Concat([i \in 1..Len(c.accessors) |-> WriteAccessor(c.accessors[i])])
    \o Concat([i \in 1..Len(c.filters) |-> WriteFilter(c.filters[i])])

InitChain ==
    /\ src \in ChainSources
    /\ context = <<>>
    /\ running = <<>>
    /\ tokens = WriteChain(src)
    /\ options = NoOptions
    /\ elements = <<>>
    /\ delimiters = {}
    /\ iter = 0
    /\ ret = <<>>
    /\ calls = <<>>
    /\ pc = "ready"
    /\ op = "none"
    /\ result = <<>>

NextChain == CallParseOutput

SpecChain == InitChain /\ [][NextChain]_vars

----------------------------------------------------------------------------
(* Element (the lexer's top-level fragment), without its source text. *)

Raw(x) == [el |-> "Raw", text |-> x]
Expression(toks) == [el |-> "Expression", tokens |-> toks]
Tag(toks) == [el |-> "Tag", tokens |-> toks]

(* The nodes parse builds: Text::new for raw text, the FilterChain of an    *)
(* expression, and what a registered handler returns.  A handler is host     *)
(* code: whether it succeeds (ok) is an input of the model.  What it returns *)
(* records what it was called with.                                          *)
Text(x) == [node |-> "Text", text |-> x]
Output(chain) == [node |-> "Output", chain |-> chain]
Path(variable) == [node |-> "Variable", variable |-> variable]

tag_handler(name, arguments, ok) ==
    IF ok THEN Ok([node |-> "Tag", name |-> name, arguments |-> arguments])
    ELSE Err([error |-> "tag handler", name |-> name, arguments |-> arguments])

block_handler(name, arguments, children, ok) ==
    IF ok THEN Ok([node |-> "Block", name |-> name, arguments |-> arguments, children |-> children])
    ELSE Err([error |-> "block handler", name |-> name, arguments |-> arguments])

(* tags/comment_block.rs: the Comment node, its render (Ok(None)), and        *)
(* comment_block, which looks at none of its arguments.                      *)
Comment == [node |-> "Comment"]

Comment_render(node, ctx) == Ok(<<>>)

(* A comment block that fails on a body holding an empty expression. *)
comment_block_mutant(tag_name, arguments, toks, opts) ==
    IF \E i \in 1..Len(toks) : toks[i] = Expression(<<>>)
    THEN Err(unexpected_token_error("expression", <<>>))
    ELSE Ok(Comment)

comment_block(tag_name, arguments, toks, opts) == Ok(Comment)

(* options.blocks[name].parse: the block registered as "comment" is          *)
(* comment_block, every other one is a handler of the host.                  *)
blocks_parse(name, arguments, children, opts, ok) ==
    IF name = "comment" THEN comment_block(name, arguments, children, opts)
    ELSE block_handler(name, arguments, children, ok)

(* A match that tries the registered tags before the bare path. *)
parse_expression_arm_mutant(toks, opts) ==
    IF Len(toks) > 0 /\ toks[1].kind = "Identifier" /\ toks[1].text \in opts.tags
    THEN "tag"
    ELSE IF /\ Len(toks) > 1
            /\ toks[1].kind = "Identifier"
            /\ (toks[2] = Dot \/ toks[2] = OpenSquare)
    THEN "path"
    ELSE IF Len(toks) = 0 THEN "none"
    ELSE "output"

(* parse_expression, lines 58-78: the arm of the match that is taken. *)
parse_expression_arm(toks, opts) ==
    IF /\ Len(toks) > 1
       /\ toks[1].kind = "Identifier"
       /\ (toks[2] = Dot \/ toks[2] = OpenSquare)
    THEN "path"
    ELSE IF Len(toks) > 0 /\ toks[1].kind = "Identifier" /\ toks[1].text \in opts.tags
    THEN "tag"
    ELSE IF Len(toks) = 0 THEN "none"
    ELSE "output"

(* A parse_expression without the bypass: an indexed path goes through       *)
(* parse_output like every other expression.                                 *)
parse_expression_mutant(toks, opts, at, ok) ==
    CASE parse_expression_arm(toks, opts) = "tag" ->
            [render |-> tag_handler(toks[1].text, Rest(toks, 1), ok),
             calls |-> <<[handler |-> "tag", name |-> toks[1].text,
                          arguments |-> Rest(toks, 1), at |-> at, ok |-> ok]>>]
      [] parse_expression_arm(toks, opts) = "none" ->
            [render |-> Err(unexpected_token_error("expression", <<>>)), calls |-> <<>>]
      [] OTHER ->
            LET output == parse_output(toks)
            IN [render |-> IF output.res = "Ok" THEN Ok(Output(output.val)) ELSE output,
                calls |-> <<>>]

(* parse_expression: [render, calls], the result and the dispatches made at *)
(* element number at.                                                        *)
parse_expression(toks, opts, at, ok) ==
    CASE parse_expression_arm(toks, opts) = "path" ->
            LET indexes == parse_indexes(Rest(toks, 1))
            IN [render |-> IF indexes.res = "Err" THEN indexes
                           ELSE Ok(Path(extend(to_arg(toks[1]).val, indexes.val))),
                calls |-> <<>>]
      [] parse_expression_arm(toks, opts) = "tag" ->
            [render |-> tag_handler(toks[1].text, Rest(toks, 1), ok),
             calls |-> <<[handler |-> "tag", name |-> toks[1].text,
                          arguments |-> Rest(toks, 1), at |-> at, ok |-> ok]>>]
      [] parse_expression_arm(toks, opts) = "none" ->
            [render |-> Err(unexpected_token_error("expression", <<>>)), calls |-> <<>>]
      [] OTHER ->
            LET output == parse_output(toks)
            IN [render |-> IF output.res = "Ok" THEN Ok(Output(output.val)) ELSE output,
                calls |-> <<>>]

(* A collection that stops at the first end tag, nested or not. *)
RECURSIVE collect_children_mutant(_, _, _, _, _, _)
collect_children_mutant(elems, i, tag, end_tag, nesting_depth, children) ==
    IF i > Len(elems) THEN [children |-> children, consumed |-> Len(elems)]
    ELSE IF elems[i].el = "Tag" /\ elems[i].tokens[1] = end_tag
    THEN [children |-> children, consumed |-> i]
    ELSE collect_children_mutant(elems, i + 1, tag, end_tag, nesting_depth,
                                 Append(children, elems[i]))

(* parse_tag, lines 223-240: the collection of a block's children from the  *)
(* shared cursor; i is the number of the next element the cursor yields.     *)
(* Returns the children and the number of the last element consumed.         *)
RECURSIVE collect_children(_, _, _, _, _, _)
collect_children(elems, i, tag, end_tag, nesting_depth, children) ==
    IF i > Len(elems) THEN [children |-> children, consumed |-> Len(elems)]
    ELSE IF elems[i].el = "Tag" /\ elems[i].tokens[1] = tag
    THEN collect_children(elems, i + 1, tag, end_tag, nesting_depth + 1, Append(children, elems[i]))
    ELSE IF elems[i].el = "Tag" /\ elems[i].tokens[1] = end_tag /\ nesting_depth > 0
    THEN collect_children(elems, i + 1, tag, end_tag, nesting_depth - 1, Append(children, elems[i]))
    ELSE IF elems[i].el = "Tag" /\ elems[i].tokens[1] = end_tag /\ nesting_depth = 0
    THEN [children |-> children, consumed |-> i]
    ELSE collect_children(elems, i + 1, tag, end_tag, nesting_depth, Append(children, elems[i]))

(* A match that tries the blocks before the tags. *)
parse_tag_arm_mutant(tag, opts) ==
    IF tag.kind = "Identifier" /\ tag.text \in opts.blocks THEN "block"
    ELSE IF tag.kind = "Identifier" /\ tag.text \in opts.tags THEN "tag"
    ELSE "unsupported"

(* parse_tag, lines 205-244: the arm of the match that is taken. *)
parse_tag_arm(tag, opts) ==
    IF tag.kind = "Identifier" /\ tag.text \in opts.tags THEN "tag"
    ELSE IF tag.kind = "Identifier" /\ tag.text \in opts.blocks THEN "block"
    ELSE "unsupported"

(* A parse_tag that fails when the stream ends inside a block. *)
parse_tag_mutant(elems, at, toks, opts, ok) ==
    IF Len(toks) = 0 THEN [render |-> Panic, consumed |-> at, calls |-> <<>>]
    ELSE CASE parse_tag_arm(toks[1], opts) = "tag" ->
                [render |-> tag_handler(toks[1].text, Rest(toks, 1), ok),
                 consumed |-> at,
                 calls |-> <<[handler |-> "tag", name |-> toks[1].text,
                              arguments |-> Rest(toks, 1), at |-> at, ok |-> ok]>>]
           [] parse_tag_arm(toks[1], opts) = "block" ->
                LET c == collect_children(elems, at + 1, toks[1],
                                          Identifier("end" \o toks[1].text), 0, <<>>)
                IN IF Len(c.children) = Len(elems) - at
                   THEN [render |-> Err([error |-> "Unterminated block", tag |-> toks[1].text]),
                         consumed |-> c.consumed,
                         calls |-> <<>>]
                   ELSE [render |-> blocks_parse(toks[1].text, Rest(toks, 1), c.children, opts, ok),
                         consumed |-> c.consumed,
                         calls |-> <<[handler |-> "block", name |-> toks[1].text,
                                      arguments |-> Rest(toks, 1), children |-> c.children,
                                      at |-> at, consumed |-> c.consumed, ok |-> ok]>>]
           [] OTHER ->
                [render |-> Err([error |-> "Tag is not supported", tag |-> Display(toks[1])]),
                 consumed |-> at,
                 calls |-> <<>>]

(* parse_tag on element number at, whose tokens are toks: [render, consumed, *)
(* calls], consumed being the number of the last element taken from the      *)
(* cursor.  tokens[0] aborts on a tag without tokens.                        *)
parse_tag(elems, at, toks, opts, ok) ==
    IF Len(toks) = 0 THEN [render |-> Panic, consumed |-> at, calls |-> <<>>]
    ELSE CASE parse_tag_arm(toks[1], opts) = "tag" ->
                [render |-> tag_handler(toks[1].text, Rest(toks, 1), ok),
                 consumed |-> at,
                 calls |-> <<[handler |-> "tag", name |-> toks[1].text,
                              arguments |-> Rest(toks, 1), at |-> at, ok |-> ok]>>]
           [] parse_tag_arm(toks[1], opts) = "block" ->
                LET c == collect_children(elems, at + 1, toks[1],
                                          Identifier("end" \o toks[1].text), 0, <<>>)
                IN [render |-> blocks_parse(toks[1].text, Rest(toks, 1), c.children, opts, ok),
                    consumed |-> c.consumed,
                    calls |-> <<[handler |-> "block", name |-> toks[1].text,
                                 arguments |-> Rest(toks, 1), children |-> c.children,
                                 at |-> at, consumed |-> c.consumed, ok |-> ok]>>]
           [] OTHER ->
                [render |-> Err([error |-> "Tag is not supported", tag |-> Display(toks[1])]),
                 consumed |-> at,
                 calls |-> <<>>]

----------------------------------------------------------------------------
(* parse, lines 28-42, one action per turn of the while loop.  iter is the  *)
(* number of elements consumed before the current token, elements[iter + 1]. *)

EmptyExpression == Expression(<<>>)
ElementUniverse ==
    {Raw("x"),
     EmptyExpression,
     Expression(<<Identifier("a")>>),
     Tag(<<Identifier("for"), Identifier("x")>>),
     Tag(<<Identifier("endfor")>>),
     Tag(<<Identifier("assign")>>),
     Tag(<<StringLiteral("for")>>)}

(* Two registries: in the second, "for" is registered as a tag and as a block. *)
OptionsUniverse ==
    {[tags |-> {"assign"}, blocks |-> {"for"}],
     [tags |-> {"assign", "for"}, blocks |-> {"for"}]}

InitParse ==
    /\ elements \in SeqsUpTo(ElementUniverse, MaxElements)
    /\ options \in OptionsUniverse
    /\ tokens = <<>>
    /\ src = <<>>
    /\ context = <<>>
    /\ running = <<>>
    /\ delimiters = {}
    /\ iter = 0
    /\ ret = <<>>
    /\ calls = <<>>
    /\ pc = "ready"
    /\ op = "none"
    /\ result = <<>>

CallParse ==
    /\ pc = "ready"
    /\ op' = "parse"
    /\ pc' = "parse"
    /\ iter' = 0
    /\ ret' = <<>>
    /\ UNCHANGED <<options, context, running, tokens, src, elements, delimiters, calls, result>>

(* A turn that returns the nodes built so far when an element fails. *)
ParseTurn_mutant(render, consumed, made) ==
    /\ calls' = calls \o made
    /\ iter' = consumed
    /\ IF render.res = "Ok"
       THEN /\ ret' = Append(ret, render.val)
            /\ UNCHANGED <<pc, result>>
       ELSE /\ result' = Ok(ret)
            /\ pc' = "returned"
            /\ UNCHANGED ret
    /\ UNCHANGED <<options, context, running, tokens, src, elements, delimiters, op>>

(* Lines 33-39: push the node and take the next token, or return the error. *)
ParseTurn(render, consumed, made) ==
    /\ calls' = calls \o made
    /\ iter' = consumed
    /\ IF render.res = "Ok"
       THEN /\ ret' = Append(ret, render.val)
            /\ UNCHANGED <<pc, result>>
       ELSE /\ result' = render
            /\ pc' = "returned"
            /\ UNCHANGED ret
    /\ UNCHANGED <<options, context, running, tokens, src, elements, delimiters, op>>

ParseRawElement ==
    /\ pc = "parse"
    /\ iter < Len(elements)
    /\ elements[iter + 1].el = "Raw"
    /\ ParseTurn(Ok(Text(elements[iter + 1].text)), iter + 1, <<>>)

ParseExpressionElement ==
    /\ pc = "parse"
    /\ iter < Len(elements)
    /\ elements[iter + 1].el = "Expression"
    /\ \E ok \in BOOLEAN :
         LET r == parse_expression(elements[iter + 1].tokens, options, iter + 1, ok)
         IN ParseTurn(r.render, iter + 1, r.calls)

ParseTagElement ==
    /\ pc = "parse"
    /\ iter < Len(elements)
    /\ elements[iter + 1].el = "Tag"
    /\ \E ok \in BOOLEAN :
         LET r == parse_tag(elements, iter + 1, elements[iter + 1].tokens, options, ok)
         IN ParseTurn(r.render, r.consumed, r.calls)

ParseReturn ==
    /\ pc = "parse"
    /\ iter >= Len(elements)
    /\ result' = Ok(ret)
    /\ pc' = "returned"
    /\ UNCHANGED <<options, context, running, tokens, src, elements, delimiters, iter, ret, calls, op>>

NextParse ==
    \/ CallParse
    \/ ParseRawElement
    \/ ParseExpressionElement
    \/ ParseTagElement
    \/ ParseReturn

SpecParse == InitParse /\ [][NextParse]_vars

----------------------------------------------------------------------------
(* parser.rs: split_block and BlockSplit.  One unfolding is one turn of the *)
(* for loop: i is the number of the element looked at, stack the closing     *)
(* names expected.  The result is [leading, split], split an Option.         *)

(* A BlockSplit whose args leave out the delimiter's own identifier. *)
BlockSplit_mutant(delimiter, args, trailing) ==
    [delimiter |-> delimiter, args |-> Tail(args), trailing |-> trailing]

BlockSplit(delimiter, args, trailing) ==
    [delimiter |-> delimiter, args |-> args, trailing |-> trailing]

(* A scan that splits at a delimiter whatever the stack holds. *)
RECURSIVE split_block_loop_mutant(_, _, _, _, _)
split_block_loop_mutant(elems, delims, opts, i, stack) ==
    IF i > Len(elems) THEN [leading |-> elems, split |-> <<>>]
    ELSE IF elems[i].el # "Tag" \/ elems[i].tokens[1].kind # "Identifier"
    THEN split_block_loop_mutant(elems, delims, opts, i + 1, stack)
    ELSE LET name == elems[i].tokens[1].text
         IN IF name \in opts.blocks
            THEN split_block_loop_mutant(elems, delims, opts, i + 1, Append(stack, "end" \o name))
            ELSE IF stack # <<>> /\ name = stack[Len(stack)]
            THEN split_block_loop_mutant(elems, delims, opts, i + 1,
                                         SubSeq(stack, 1, Len(stack) - 1))
            ELSE IF name \in delims
            THEN [leading |-> SubSeq(elems, 1, i - 1),
                  split |-> <<[delimiter |-> name, args |-> elems[i].tokens,
                               trailing |-> SubSeq(elems, i, Len(elems))]>>]
            ELSE split_block_loop_mutant(elems, delims, opts, i + 1, stack)

RECURSIVE split_block_loop(_, _, _, _, _)
split_block_loop(elems, delims, opts, i, stack) ==
    IF i > Len(elems) THEN [leading |-> elems, split |-> <<>>]
    ELSE IF elems[i].el # "Tag" \/ elems[i].tokens[1].kind # "Identifier"
    THEN split_block_loop(elems, delims, opts, i + 1, stack)
    ELSE LET name == elems[i].tokens[1].text
         IN IF name \in opts.blocks
            THEN split_block_loop(elems, delims, opts, i + 1, Append(stack, "end" \o name))
            ELSE IF stack # <<>> /\ name = stack[Len(stack)]
            THEN split_block_loop(elems, delims, opts, i + 1, SubSeq(stack, 1, Len(stack) - 1))
            ELSE IF stack = <<>> /\ name \in delims
            THEN [leading |-> SubSeq(elems, 1, i - 1),
                  split |-> <<BlockSplit(name, elems[i].tokens, SubSeq(elems, i, Len(elems)))>>]
            ELSE split_block_loop(elems, delims, opts, i + 1, stack)

split_block(elems, delims, opts) == split_block_loop(elems, delims, opts, 1, <<>>)

(* The bodies of the model, with the blocks of the tests of split_block. *)
BodyUniverse ==
    {Raw("x"),
     Tag(<<Identifier("for"), Identifier("x")>>),
     Tag(<<Identifier("endfor")>>),
     Tag(<<Identifier("if"), Identifier("x")>>),
     Tag(<<Identifier("endif")>>),
     Tag(<<Identifier("else")>>),
     Tag(<<Identifier("elsif"), Identifier("x")>>)}

DelimiterUniverse == {{"else"}, {"else", "elsif"}, {"else", "if"}}

InitSplit ==
    /\ elements \in SeqsUpTo(BodyUniverse, MaxBody)
    /\ delimiters \in DelimiterUniverse
    /\ options = [tags |-> {}, blocks |-> {"for", "if"}]
    /\ tokens = <<>>
    /\ src = <<>>
    /\ context = <<>>
    /\ running = <<>>
    /\ iter = 0
    /\ ret = <<>>
    /\ calls = <<>>
    /\ pc = "ready"
    /\ op = "none"
    /\ result = <<>>

CallSplitBlock ==
    /\ pc = "ready"
    /\ op' = "split_block"
    /\ result' = split_block(elements, delimiters, options)
    /\ pc' = "returned"
    /\ UNCHANGED <<options, context, running, tokens, src, elements, delimiters, iter, ret, calls>>

NextSplit == CallSplitBlock

SpecSplit == InitSplit /\ [][NextSplit]_vars

----------------------------------------------------------------------------
(* Claims about parse_output and parse_indexes. *)

Returned(name) == pc = "returned" /\ op = name

(* The expression a value token stands for: a literal of the token's own    *)
(* type, or the variable whose path is the identifier's dotted segments.     *)
Classified(t) ==
    IF t.kind = "Identifier"
    THEN Variable([i \in 1..Len(SplitDot(t.text)) |-> Literal(Scalar("str", SplitDot(t.text)[i]))])
    ELSE Literal(CASE t.kind = "StringLiteral" -> Scalar("str", t.text)
                   [] t.kind = "IntegerLiteral" -> Scalar("int", t.num)
                   [] t.kind = "FloatLiteral" -> Scalar("float", t.num)
                   [] t.kind = "BooleanLiteral" -> Scalar("bool", t.bool))

(* The accessor expression of a written accessor: a literal field name or   *)
(* literal index, or a variable reference for a bracketed identifier.        *)
AccessorExpression(a) ==
    IF a.acc = "index" /\ a.token.kind = "Identifier"
    THEN Variable(<<Literal(Scalar("str", a.token.text))>>)
    ELSE Classified(IF a.acc = "dot" THEN StringLiteral(a.token.text) ELSE a.token)

(* The chain a structure [entry, accessors, filters] stands for. *)
ChainOf(c) ==
    [entry |-> IF Classified(c.entry).expr = "Variable"
               THEN Variable(Classified(c.entry).path
                             \o [i \in 1..Len(c.accessors) |-> AccessorExpression(c.accessors[i])])
               ELSE Classified(c.entry),
     filters |-> [i \in 1..Len(c.filters) |->
                    [name |-> c.filters[i].name,
                     arguments |-> [j \in 1..Len(c.filters[i].args) |->
                                        Classified(c.filters[i].args[j])]]]]

(* C4: for every token slice written by the grammar                          *)
(*   value accessor* ( '|' identifier [ ':' value ( ',' value )* ] )*        *)
(* parse_output succeeds and returns the chain of that structure: the entry  *)
(* is the classified first token, extended by the accessors when it is a     *)
(* variable, and the filter calls are the filters of the input in input      *)
(* order, each with its name and its arguments in input order.               *)
C4_ParseOutputReturnsTheChain ==
    Returned("parse_output") => result = Ok(ChainOf(src))

(* C4 witness: an indexed variable piped through two filters, the first with *)
(* two different arguments, has been parsed.                                  *)
C4_Witness ==
    /\ Returned("parse_output")
    /\ src.entry.kind = "Identifier"
    /\ Len(src.accessors) >= 1
    /\ Len(src.filters) = 2
    /\ src.filters[1].name # src.filters[2].name
    /\ Len(src.filters[1].args) = 2
    /\ src.filters[1].args[1] # src.filters[1].args[2]
    /\ Len(src.filters[2].args) = 0
    /\ result.res = "Ok"
    /\ Len(result.val.filters) = 2

(* The first place where a filter section (the slice from the first pipe on) *)
(* breaks the grammar  ( '|' identifier [ ':' value ( ',' value )* ] )* ,    *)
(* read from token i on in grammar position st: [expected, at], or <<>> when *)
(* it breaks nowhere.  An empty argument position (a ':' or ',' followed by  *)
(* '|' or by the end) is not a break.                                        *)
IsValue(t) ==
    t.kind \in {"StringLiteral", "IntegerLiteral", "FloatLiteral", "BooleanLiteral", "Identifier"}

RECURSIVE GrammarBreak(_, _, _)
GrammarBreak(t, i, st) ==
    LET end == i > Len(t)
        break(expected) == <<[expected |-> expected, at |-> i]>>
    IN CASE st = "name" ->
              IF ~end /\ t[i].kind = "Identifier" THEN GrammarBreak(t, i + 1, "after name")
              ELSE break("identifier")
         [] st = "after name" ->
              IF end THEN <<>>
              ELSE IF t[i] = Pipe THEN GrammarBreak(t, i + 1, "name")
              ELSE IF t[i] = Colon THEN GrammarBreak(t, i + 1, "argument")
              ELSE break("':'")
         [] st = "argument" ->
              IF end THEN <<>>
              ELSE IF t[i] = Pipe THEN GrammarBreak(t, i + 1, "name")
              ELSE IF IsValue(t[i]) THEN GrammarBreak(t, i + 1, "after argument")
              ELSE break(VALUE_EXPECTED)
         [] st = "after argument" ->
              IF end THEN <<>>
              ELSE IF t[i] = Pipe THEN GrammarBreak(t, i + 1, "name")
              ELSE IF t[i] = Comma THEN GrammarBreak(t, i + 1, "argument")
              ELSE break("',' | '|'")

(* The slice from the first pipe on, and its first break (the pipe is token 1). *)
FilterSection(toks) ==
    IF \E i \in 1..Len(toks) : toks[i] = Pipe
    THEN SubSeq(toks, CHOOSE i \in 1..Len(toks) : toks[i] = Pipe /\ \A j \in 1..(i - 1) : toks[j] # Pipe,
                Len(toks))
    ELSE <<>>

FilterBreak(toks) ==
    IF FilterSection(toks) = <<>> THEN <<>> ELSE GrammarBreak(FilterSection(toks), 2, "name")

ActualAt(t, i) == IF i > Len(t) THEN "nothing" ELSE Display(t[i])

(* C5: when the entry of parse_output parses, a filter section that breaks   *)
(* the grammar fails with UnexpectedToken and no chain: expected is          *)
(* identifier after a pipe without a name, ':' after a name followed by      *)
(* anything but '|', ':' or the end, and ',' | '|' after an argument         *)
(* followed by anything but ',', '|' or the end; actual is the display form  *)
(* of the first token that breaks the grammar, or nothing at the end.        *)
C5_FilterSectionErrors ==
    (Returned("parse_output") /\ parse_entry(tokens).res = "Ok" /\ FilterBreak(tokens) # <<>>)
        => result = Err([error |-> "UnexpectedToken",
                         expected |-> FilterBreak(tokens)[1].expected,
                         actual |-> ActualAt(FilterSection(tokens), FilterBreak(tokens)[1].at)])

(* C5 witness: parse_output has failed on a filter argument that is followed *)
(* by an identifier instead of ',' or '|'.                                   *)
C5_Witness ==
    /\ Returned("parse_output")
    /\ result.res = "Err"
    /\ result.err.expected = "',' | '|'"
    /\ result.err.actual = "f"
    /\ FilterBreak(tokens) # <<>>
    /\ FilterBreak(tokens)[1].at = 5

(* An accessor chain read from the front of a slice reaches a malformed      *)
(* accessor: a '.' not followed by an identifier, or a '[' not followed by   *)
(* a string, integer or identifier and then ']' (also when the slice ends    *)
(* first).                                                                   *)
WellFormedDot(t) == Len(t) >= 2 /\ t[2].kind = "Identifier"
WellFormedIndex(t) ==
    /\ Len(t) >= 3
    /\ t[2].kind \in {"StringLiteral", "IntegerLiteral", "Identifier"}
    /\ t[3] = CloseSquare

RECURSIVE ReachesMalformedAccessor(_)
ReachesMalformedAccessor(t) ==
    IF t = <<>> THEN FALSE
    ELSE IF t[1] = Dot THEN ~WellFormedDot(t) \/ ReachesMalformedAccessor(Rest(t, 2))
    ELSE IF t[1] = OpenSquare THEN ~WellFormedIndex(t) \/ ReachesMalformedAccessor(Rest(t, 3))
    ELSE FALSE

(* C6: parse_indexes fails with UnexpectedToken whenever it reaches a        *)
(* malformed accessor, also when the slice ends right after the '.', right   *)
(* after the '[' or before the ']'; it returns a list only when every        *)
(* accessor it reached was well formed.                                      *)
C6_MalformedAccessorFails ==
    (Returned("parse_indexes") /\ ReachesMalformedAccessor(tokens))
        => (result.res = "Err" /\ result.err.error = "UnexpectedToken")

(* C7: parse_output and parse_indexes return a value or an Error for every   *)
(* token slice, the empty one included; none makes them abort.               *)
C7_NoAbort ==
    (Returned("parse_output") \/ Returned("parse_indexes")) => result.res \in {"Ok", "Err"}

(* The token at fault in the first malformed accessor of a slice, when it is *)
(* there: the token after '.', the bracket content, or the token in the      *)
(* place of ']'.                                                             *)
RECURSIVE OffendingToken(_)
OffendingToken(t) ==
    IF t = <<>> THEN <<>>
    ELSE IF t[1] = Dot THEN
        IF WellFormedDot(t) THEN OffendingToken(Rest(t, 2))
        ELSE Next_token(t, 2)
    ELSE IF t[1] = OpenSquare THEN
        IF WellFormedIndex(t) THEN OffendingToken(Rest(t, 3))
        ELSE IF Len(t) >= 2 /\ t[2].kind \notin {"StringLiteral", "IntegerLiteral", "Identifier"}
             THEN Next_token(t, 2)
        ELSE Next_token(t, 3)
    ELSE <<>>

(* C8: every UnexpectedToken error of parse_indexes names the offending      *)
(* token as its actual: the token after the '.', the bracket content, or the *)
(* token found in the place of ']', not the '.' or '[' itself.               *)
C8_ErrorNamesOffendingToken ==
    (Returned("parse_indexes") /\ result.res = "Err")
        => (OffendingToken(tokens) # <<>> /\ result.err.actual = Display(OffendingToken(tokens)[1]))

----------------------------------------------------------------------------
(* Claims about parse and parse_tag. *)

LeadingIs(e, tok) == e.el = "Tag" /\ e.tokens[1] = tok

CountIn(elems, lo, hi, tok) == Cardinality({j \in lo..hi : LeadingIs(elems[j], tok)})

(* The number of the end tag that balances the opening tag of block x at     *)
(* element i: the first later tag end-x with as many tags x as tags end-x    *)
(* between the two; 0 when there is none.                                    *)
BalancingEnd(elems, i, x) ==
    LET ends == {k \in (i + 1)..Len(elems) :
                    /\ LeadingIs(elems[k], Identifier("end" \o x))
                    /\ CountIn(elems, i + 1, k - 1, Identifier(x))
                         = CountIn(elems, i + 1, k - 1, Identifier("end" \o x))}
    IN IF ends = {} THEN 0 ELSE CHOOSE k \in ends : \A j \in ends : k <= j

(* Element e opens a block: a tag whose leading identifier is a registered   *)
(* block name that is not taken by a registered tag.                         *)
OpensBlock(e, opts) ==
    /\ e.el = "Tag"
    /\ e.tokens[1].kind = "Identifier"
    /\ e.tokens[1].text \in opts.blocks \ opts.tags

Current == elements[iter + 1]
AtElement == pc = "parse" /\ iter < Len(elements)

(* C1: when parse_tag meets the opening tag of a block x that has a          *)
(* balancing end tag at element k, it consumes the elements up to and        *)
(* including k, hands the block's parse the elements between the two (nested *)
(* pairs included, the final end tag excluded), and leaves the cursor after  *)
(* k, where the top-level loop goes on.                                      *)
C1_Step ==
    (/\ AtElement
     /\ OpensBlock(Current, options)
     /\ BalancingEnd(elements, iter + 1, Current.tokens[1].text) # 0)
        => LET k == BalancingEnd(elements, iter + 1, Current.tokens[1].text)
           IN /\ iter' = k
              /\ Len(calls') = Len(calls) + 1
              /\ calls'[Len(calls')].handler = "block"
              /\ calls'[Len(calls')].name = Current.tokens[1].text
              /\ calls'[Len(calls')].children = SubSeq(elements, iter + 2, k - 1)
              /\ (calls'[Len(calls')].ok => (pc' = "parse" /\ Len(ret') = Len(ret) + 1))

C1_BlockCollectsToBalancingEnd == [][C1_Step]_vars

(* C1 witness: for for endfor endfor x has been parsed into two nodes, the   *)
(* block with the inner pair as its children and the sibling.                *)
C1_Witness ==
    /\ Returned("parse")
    /\ Len(elements) = 5
    /\ OpensBlock(elements[1], options)
    /\ BalancingEnd(elements, 1, "for") = 4
    /\ elements[5].el = "Raw"
    /\ result.res = "Ok"
    /\ Len(result.val) = 2
    /\ result.val[1].node = "Block"
    /\ result.val[1].children = SubSeq(elements, 2, 3)
    /\ result.val[2] = Text("x")

(* The top-level units of an element stream from element i on: each element  *)
(* is one, a block opening being one with its body and its end tag (with the *)
(* rest of the stream when no end tag balances it).                          *)
UnitEnd(elems, opts, i) ==
    IF OpensBlock(elems[i], opts)
    THEN IF BalancingEnd(elems, i, elems[i].tokens[1].text) # 0
         THEN BalancingEnd(elems, i, elems[i].tokens[1].text)
         ELSE Len(elems)
    ELSE i

RECURSIVE Units(_, _, _)
Units(elems, opts, i) ==
    IF i > Len(elems) THEN <<>>
    ELSE <<[start |-> i, end |-> UnitEnd(elems, opts, i)]>>
         \o Units(elems, opts, UnitEnd(elems, opts, i) + 1)

Registered(tok, opts) == tok.kind = "Identifier" /\ tok.text \in (opts.tags \cup opts.blocks)

(* The error a unit fails with whatever its handlers do, <<>> when none. *)
OwnError(elems, opts, u) ==
    LET e == elems[u.start]
    IN CASE e.el = "Raw" -> <<>>
         [] e.el = "Expression" ->
              IF e.tokens = <<>> THEN <<unexpected_token_error("expression", <<>>)>>
              ELSE IF e.tokens[1].kind = "Identifier" /\ e.tokens[1].text \in opts.tags THEN <<>>
              ELSE IF parse_output(e.tokens).res = "Err" THEN <<parse_output(e.tokens).err>>
              ELSE <<>>
         [] e.el = "Tag" ->
              IF Registered(e.tokens[1], opts) THEN <<>>
              ELSE <<[error |-> "Tag is not supported", tag |-> Display(e.tokens[1])]>>

(* The handler call made at element i, <<>> when none. *)
CallAt(log, i) ==
    IF \E n \in 1..Len(log) : log[n].at = i
    THEN <<log[CHOOSE n \in 1..Len(log) : log[n].at = i]>>
    ELSE <<>>

UnitFails(elems, opts, log, u) ==
    \/ OwnError(elems, opts, u) # <<>>
    \/ (CallAt(log, u.start) # <<>> /\ ~CallAt(log, u.start)[1].ok)

(* The node of a unit that parsed. *)
NodeOfUnit(elems, opts, u, n) ==
    LET e == elems[u.start]
    IN CASE e.el = "Raw" -> n = Text(e.text)
         [] e.el = "Expression" -> n.node \in {"Output", "Variable", "Tag"}
         [] e.el = "Tag" ->
              IF OpensBlock(e, opts)
              THEN /\ n.node = "Block"
                   /\ n.name = e.tokens[1].text
                   /\ n.arguments = Tail(e.tokens)
                   /\ n.children = SubSeq(elems, u.start + 1,
                                          IF BalancingEnd(elems, u.start, n.name) # 0
                                          THEN u.end - 1 ELSE u.end)
              ELSE /\ n.node = "Tag"
                   /\ n.name = e.tokens[1].text
                   /\ n.arguments = Tail(e.tokens)

(* C9: parse is fail-fast with no partial tree.  When it returns an error,   *)
(* that is the error of the first failing top-level unit in stream order,    *)
(* the nodes built are those of the units before it and are not returned,    *)
(* and no handler was called for a later element; when it returns nodes,     *)
(* they are one per top-level unit, in the order of the units.               *)
C9_ParseFailFast ==
    Returned("parse") =>
        LET units == Units(elements, options, 1)
            failing == {k \in 1..Len(units) : UnitFails(elements, options, calls, units[k])}
        IN IF result.res = "Ok"
           THEN /\ failing = {}
                /\ Len(result.val) = Len(units)
                /\ \A k \in 1..Len(units) :
                      NodeOfUnit(elements, options, units[k], result.val[k])
           ELSE /\ result.res = "Err"
                /\ failing # {}
                /\ LET f == CHOOSE k \in failing : \A j \in failing : k <= j
                   IN /\ IF OwnError(elements, options, units[f]) # <<>>
                         THEN result.err = OwnError(elements, options, units[f])[1]
                         ELSE /\ result.err.error \in {"tag handler", "block handler"}
                              /\ result.err.name = elements[units[f].start].tokens[1].text
                      /\ DOMAIN result = {"res", "err"}
                      /\ Len(ret) = f - 1
                      /\ \A n \in 1..Len(calls) : calls[n].at <= units[f].start

(* C9 witness: a stream whose second unit fails after a block, with a later  *)
(* element that would have failed too, has returned the second unit's error. *)
C9_Witness ==
    /\ Returned("parse")
    /\ result.res = "Err"
    /\ Len(elements) = 5
    /\ OpensBlock(elements[1], options)
    /\ BalancingEnd(elements, 1, "for") = 2
    /\ elements[3] = EmptyExpression
    /\ elements[4] = Tag(<<Identifier("assign")>>)
    /\ elements[5] = Tag(<<Identifier("endfor")>>)
    /\ result.err = unexpected_token_error("expression", <<>>)
    /\ Len(calls) = 1

(* C10: a tag whose leading token is not the name of a registered tag or     *)
(* block makes parse_tag fail with Tag is not supported carrying that token, *)
(* call no handler and consume no further element; a leading name registered *)
(* as a tag and as a block is dispatched to the tag handler, and no body is  *)
(* collected.                                                                *)
C10_Step ==
    /\ (AtElement /\ Current.el = "Tag" /\ ~Registered(Current.tokens[1], options))
          => /\ pc' = "returned"
             /\ result' = Err([error |-> "Tag is not supported",
                               tag |-> Display(Current.tokens[1])])
             /\ calls' = calls
             /\ iter' = iter + 1
    /\ (/\ AtElement
        /\ Current.el = "Tag"
        /\ Current.tokens[1].kind = "Identifier"
        /\ Current.tokens[1].text \in options.tags \cap options.blocks)
          => /\ Len(calls') = Len(calls) + 1
             /\ calls'[Len(calls')].handler = "tag"
             /\ calls'[Len(calls')].name = Current.tokens[1].text
             /\ iter' = iter + 1

C10_UnsupportedTag == [][C10_Step]_vars

(* C10 witness: an end tag met at the top level, outside any block, has      *)
(* failed the parse after a tag registered both ways went to its tag handler. *)
C10_Witness ==
    /\ Returned("parse")
    /\ result = Err([error |-> "Tag is not supported", tag |-> "endfor"])
    /\ "for" \in options.tags \cap options.blocks
    /\ Len(calls) = 1
    /\ calls[1].handler = "tag"
    /\ calls[1].name = "for"
    /\ iter = 2

----------------------------------------------------------------------------
(* Claims about split_block. *)

LeadingName(e) ==
    IF e.el = "Tag" /\ e.tokens[1].kind = "Identifier" THEN <<e.tokens[1].text>> ELSE <<>>

(* The registered blocks opened and not yet closed after the first n         *)
(* elements of a body, innermost last: a block's opening tag opens it, and   *)
(* the end tag of the innermost open block closes it.                        *)
RECURSIVE Unclosed(_, _, _)
Unclosed(body, opts, n) ==
    IF n = 0 THEN <<>>
    ELSE LET before == Unclosed(body, opts, n - 1)
             name == LeadingName(body[n])
         IN IF name = <<>> THEN before
            ELSE IF name[1] \in opts.blocks THEN Append(before, name[1])
            ELSE IF before # <<>> /\ name[1] = "end" \o before[Len(before)]
            THEN SubSeq(before, 1, Len(before) - 1)
            ELSE before

(* The delimiter-named tags met while no registered block is unclosed. *)
TopLevelDelimiters(body, delims, opts) ==
    {i \in 1..Len(body) :
        /\ LeadingName(body[i]) # <<>>
        /\ LeadingName(body[i])[1] \in delims
        /\ Unclosed(body, opts, i - 1) = <<>>}

(* The same, without the tags that open a registered block themselves. *)
TopLevelSplitPoints(body, delims, opts) ==
    {i \in TopLevelDelimiters(body, delims, opts) : LeadingName(body[i])[1] \notin opts.blocks}

Least(S) == CHOOSE i \in S : \A j \in S : i <= j

SplitsAtFirstOf(points) ==
    IF points = {}
    THEN result.split = <<>> /\ result.leading = elements
    ELSE /\ result.split # <<>>
         /\ Len(result.leading) = Least(points) - 1
         /\ result.leading = SubSeq(elements, 1, Least(points) - 1)

(* C2 as stated: for every body and delimiter set, the split point is the    *)
(* first tag whose leading identifier is in the delimiter set and that is    *)
(* met while no registered block opened earlier is unclosed; with no such    *)
(* tag there is no split and leading is the whole input.                     *)
C2_SplitsAtFirstTopLevelDelimiter ==
    Returned("split_block")
        => SplitsAtFirstOf(TopLevelDelimiters(elements, delimiters, options))

(* C2 amended: the split point is the first such tag that does not itself    *)
(* open a registered block (a delimiter that is a registered block name      *)
(* opens a nested block and never splits); a delimiter-named tag inside a    *)
(* registered block is never the split point.                                *)
C2_SplitsAtFirstTopLevelNonBlockDelimiter ==
    Returned("split_block")
        => SplitsAtFirstOf(TopLevelSplitPoints(elements, delimiters, options))

(* C2 witness: a body with an else nested in a for block before the          *)
(* top-level else has been split at the top-level one.                       *)
C2_Witness ==
    /\ Returned("split_block")
    /\ Len(elements) = 4
    /\ LeadingName(elements[1]) = <<"for">>
    /\ LeadingName(elements[2]) = <<"else">>
    /\ LeadingName(elements[3]) = <<"endfor">>
    /\ LeadingName(elements[4]) = <<"else">>
    /\ result.split # <<>>
    /\ Len(result.leading) = 3

(* C3: when split_block finds a split point, leading followed by trailing is *)
(* the input, trailing begins with the delimiter's own element, delimiter is *)
(* the name of that element's leading identifier, a name of the delimiter    *)
(* set, and args is that element's whole token sequence, the delimiter       *)
(* identifier first.                                                         *)
C3_SplitParts ==
    (Returned("split_block") /\ result.split # <<>>)
        => LET s == result.split[1]
               i == Len(result.leading) + 1
           IN /\ result.leading \o s.trailing = elements
              /\ result.leading = SubSeq(elements, 1, i - 1)
              /\ s.trailing = SubSeq(elements, i, Len(elements))
              /\ s.trailing # <<>>
              /\ elements[i].el = "Tag"
              /\ s.delimiter \in delimiters
              /\ s.args = elements[i].tokens
              /\ s.args[1] = Identifier(s.delimiter)

(* C3 witness: a body has been split at an elsif with an argument, with      *)
(* elements before and after it.                                             *)
C3_Witness ==
    /\ Returned("split_block")
    /\ result.split # <<>>
    /\ result.split[1].delimiter = "elsif"
    /\ result.split[1].args = <<Identifier("elsif"), Identifier("x")>>
    /\ Len(result.leading) = 2
    /\ Len(result.split[1].trailing) = 3

----------------------------------------------------------------------------
(* The Context of a render and the evaluation of an expression against it.  *)
(* The value model and the resolution of a variable are the runtime's: a     *)
(* value is a scalar or an object (a keyed map of values); a path is         *)
(* resolved by evaluating each of its accessors to a scalar, looking the     *)
(* first up among the globals and each further one up as a field of the      *)
(* value reached.                                                            *)

Object(fields) == [type |-> "object", v |-> fields]

IndexError(key) == [error |-> "Index error", key |-> key]

RECURSIVE walk(_, _)
walk(value, keys) ==
    IF keys = <<>> THEN Ok(value)
    ELSE IF /\ value.type = "object"
            /\ keys[1].type = "str"
            /\ keys[1].v \in DOMAIN value.v
    THEN walk(value.v[keys[1].v], Tail(keys))
    ELSE Err(IndexError(keys[1]))

RECURSIVE evaluate(_, _)
evaluate(expression, ctx) ==
    IF expression.expr = "Literal" THEN Ok(expression.value)
    ELSE LET keys == [k \in 1..Len(expression.path) |-> evaluate(expression.path[k], ctx)]
             failed == {k \in 1..Len(keys) : keys[k].res = "Err"}
         IN IF failed # {} THEN keys[CHOOSE k \in failed : \A j \in failed : k <= j]
            ELSE walk(Object(ctx.globals), [k \in 1..Len(keys) |-> keys[k].val])

----------------------------------------------------------------------------
(* parse_expression called on the tokens of one expression fragment, and the *)
(* render of the path it returns.                                            *)

ExpressionUniverse ==
    {Identifier("a"), Identifier("b"), Identifier("i"), StringLiteral("b"),
     Dot, OpenSquare, CloseSquare, Pipe}

PathTailUniverse == {Pipe, Colon, Identifier("b"), StringLiteral("b")}

(* Every slice of at most MaxTokens tokens, the slices made of a path with   *)
(* one accessor and a tail, and the accesses to the fields of "a".           *)
(* The three ways to write the access to field f of "a". *)
DotForm(f) == <<Identifier("a"), Dot, Identifier(f)>>
StringForm(f) == <<Identifier("a"), OpenSquare, StringLiteral(f), CloseSquare>>
VariableForm == <<Identifier("a"), OpenSquare, Identifier("i"), CloseSquare>>

ExpressionSlices ==
    SeqsUpTo(ExpressionUniverse, MaxTokens)
    \cup {<<Identifier("a")>> \o WriteAccessor(x) \o t :
             x \in Accessors, t \in SeqsUpTo(PathTailUniverse, MaxTokens - 1)}
    \cup {DotForm(f) : f \in {"b", "c"}}
    \cup {StringForm(f) : f \in {"b", "c"}}
    \cup {VariableForm}

(* Without registered names, and with "a" registered as a tag. *)
ExpressionOptions == {NoOptions, [tags |-> {"a"}, blocks |-> {}]}

(* The object "a" with the fields "b" and "c", and "i" bound to the name of  *)
(* one of the two.                                                           *)
PathObject == Object([b |-> Scalar("int", 42), c |-> Scalar("int", 7)])

PathContexts ==
    {[globals |-> [a |-> PathObject, i |-> Scalar("str", f)], filters |-> <<>>] : f \in {"b", "c"}}

InitExpression ==
    /\ tokens \in ExpressionSlices
    /\ options \in ExpressionOptions
    /\ context \in PathContexts
    /\ running = <<>>
    /\ src = <<>>
    /\ elements = <<>>
    /\ delimiters = {}
    /\ iter = 0
    /\ ret = <<>>
    /\ calls = <<>>
    /\ pc = "ready"
    /\ op = "none"
    /\ result = <<>>

CallParseExpression ==
    /\ pc = "ready"
    /\ \E ok \in BOOLEAN :
         LET r == parse_expression(tokens, options, 1, ok)
         IN /\ result' = r.render
            /\ calls' = r.calls
    /\ op' = "parse_expression"
    /\ pc' = "returned"
    /\ UNCHANGED <<options, context, running, tokens, src, elements, delimiters, iter, ret>>

(* The render of the path expression parse_expression returned. *)
RenderPath ==
    /\ pc = "returned"
    /\ op = "parse_expression"
    /\ result.res = "Ok"
    /\ result.val.node = "Variable"
    /\ running' = evaluate(result.val.variable, context)
    /\ pc' = "rendered"
    /\ UNCHANGED <<options, context, tokens, src, elements, delimiters, iter, ret, calls, op, result>>

NextExpression == CallParseExpression \/ RenderPath

SpecExpression == InitExpression /\ [][NextExpression]_vars

----------------------------------------------------------------------------
(* Claims about parse_expression. *)

StartsWithIdentifier(t) == Len(t) >= 1 /\ t[1].kind = "Identifier"

(* An identifier immediately followed by '.' or '['. *)
Bypasses(t) == StartsWithIdentifier(t) /\ Len(t) >= 2 /\ t[2] \in {Dot, OpenSquare}

AccessorErrors == {"identifier", "string | whole number | identifier", "']'"}

(* C11: parse_expression decides by strict precedence.  (1) An identifier    *)
(* immediately followed by '.' or '[' is read as a bare path, a registered   *)
(* tag name included: no handler is called, and the result is a path rooted  *)
(* at the identifier or an accessor error.  (2) Otherwise a first identifier *)
(* that is a registered tag name is dispatched to that tag's parse with the  *)
(* remaining tokens, and the result is the handler's.  (3) Otherwise the     *)
(* empty slice fails with UnexpectedToken, expected expression, actual       *)
(* nothing.  (4) Otherwise the result is that of parse_output, wrapped in an *)
(* output node when it is a chain.                                           *)
C11_ExpressionPrecedence ==
    Returned("parse_expression") =>
        IF Bypasses(tokens)
        THEN /\ calls = <<>>
             /\ result.res \in {"Ok", "Err"}
             /\ result.res = "Ok" =>
                    /\ result.val.node = "Variable"
                    /\ result.val.variable.path[1] = Literal(Scalar("str", tokens[1].text))
             /\ result.res = "Err" =>
                    /\ result.err.error = "UnexpectedToken"
                    /\ result.err.expected \in AccessorErrors
        ELSE IF StartsWithIdentifier(tokens) /\ tokens[1].text \in options.tags
        THEN /\ Len(calls) = 1
             /\ calls[1].handler = "tag"
             /\ calls[1].name = tokens[1].text
             /\ calls[1].arguments = Tail(tokens)
             /\ result = IF calls[1].ok
                         THEN Ok([node |-> "Tag", name |-> tokens[1].text,
                                  arguments |-> Tail(tokens)])
                         ELSE Err([error |-> "tag handler", name |-> tokens[1].text,
                                   arguments |-> Tail(tokens)])
        ELSE IF tokens = <<>>
        THEN /\ calls = <<>>
             /\ result = Err([error |-> "UnexpectedToken", expected |-> "expression",
                              actual |-> "nothing"])
        ELSE /\ calls = <<>>
             /\ result.res \in {"Ok", "Err"}
             /\ result.res = "Ok" =>
                    (parse_output(tokens).res = "Ok"
                       /\ result.val = [node |-> "Output", chain |-> parse_output(tokens).val])
             /\ result.res = "Err" => result = parse_output(tokens)

(* C11 witness: a.b has been parsed into a bare path although "a" is a       *)
(* registered tag name, and no handler was called.                           *)
C11_Witness ==
    /\ Returned("parse_expression")
    /\ tokens = <<Identifier("a"), Dot, Identifier("b")>>
    /\ "a" \in options.tags
    /\ result.res = "Ok"
    /\ result.val.node = "Variable"
    /\ calls = <<>>

(* The number of tokens of the longest chain of well-formed accessors at the *)
(* front of a slice, and the accessor expressions that chain stands for: a   *)
(* literal for .name, ["name"] and [0], a variable reference for [name].     *)
RECURSIVE ChainLength(_)
ChainLength(t) ==
    IF t # <<>> /\ t[1] = Dot /\ WellFormedDot(t) THEN 2 + ChainLength(Rest(t, 2))
    ELSE IF t # <<>> /\ t[1] = OpenSquare /\ WellFormedIndex(t) THEN 3 + ChainLength(Rest(t, 3))
    ELSE 0

RECURSIVE ChainAccessors(_)
ChainAccessors(t) ==
    IF t # <<>> /\ t[1] = Dot /\ WellFormedDot(t)
    THEN <<Literal(Scalar("str", t[2].text))>> \o ChainAccessors(Rest(t, 2))
    ELSE IF t # <<>> /\ t[1] = OpenSquare /\ WellFormedIndex(t)
    THEN <<IF t[2].kind = "Identifier"
           THEN Variable(<<Literal(Scalar("str", t[2].text))>>)
           ELSE Classified(t[2])>> \o ChainAccessors(Rest(t, 3))
    ELSE <<>>

(* The tokens after the accessor chain of a slice that starts with an        *)
(* identifier.                                                               *)
AfterChain(t) == Rest(t, 1 + ChainLength(Tail(t)))

(* C12: when the tokens start with an identifier immediately followed by '.' *)
(* or '[' and the accessor chain ends at the end of the slice or at a token  *)
(* that is neither '.' nor '[', parse_expression returns the bare path made  *)
(* of the identifier and the accessors of the chain, whatever the tokens     *)
(* after the chain are: no filter is attached, no error is raised for them   *)
(* and no handler is called, so a.b | f gives the node of a.b.               *)
C12_BypassIgnoresTheTail ==
    (/\ Returned("parse_expression")
     /\ Bypasses(tokens)
     /\ (AfterChain(tokens) = <<>> \/ AfterChain(tokens)[1] \notin {Dot, OpenSquare}))
        => /\ result = Ok([node |-> "Variable",
                           variable |-> Variable(<<Literal(Scalar("str", tokens[1].text))>>
                                                 \o ChainAccessors(Tail(tokens)))])
           /\ calls = <<>>

(* C12 witness: a.b | b has been parsed into the two-element path a.b. *)
C12_Witness ==
    /\ Returned("parse_expression")
    /\ tokens = <<Identifier("a"), Dot, Identifier("b"), Pipe, Identifier("b")>>
    /\ result.res = "Ok"
    /\ result.val.node = "Variable"
    /\ Len(result.val.variable.path) = 2

----------------------------------------------------------------------------
(* interpreter/output.rs: Output::apply_filters, one action per turn of the *)
(* for loop.  src is the Output, [entry, filters], a filter being a          *)
(* FilterPrototype [name, arguments]; context.filters is the filter table,   *)
(* which maps a name to what the filter registered under it does ("ok": it   *)
(* returns a value, "fail": it returns an error); running is the variable    *)
(* entry of the source, iter the number of filters the loop has finished.    *)
(* A filter is host code: the value it returns records what it was called    *)
(* with.                                                                     *)

FilterPrototype(name, arguments) == [name |-> name, arguments |-> arguments]

get_filter(ctx, name) == IF name \in DOMAIN ctx.filters THEN <<ctx.filters[name]>> ELSE <<>>

filter(f, name, input, arguments) ==
    IF f = "ok"
    THEN Ok([type |-> "filtered", v |-> [name |-> name, input |-> input, arguments |-> arguments]])
    ELSE Err([error |-> "Filter error", name |-> name])

(* Lines 57-62: the arguments evaluated in order and collected; the first    *)
(* failure ends the collection.                                              *)
evaluate_arguments(arguments, ctx) ==
    LET values == [j \in 1..Len(arguments) |-> evaluate(arguments[j], ctx)]
        failed == {j \in 1..Len(values) : values[j].res = "Err"}
    IN IF failed # {} THEN values[CHOOSE j \in failed : \A i \in failed : j <= i]
       ELSE Ok([j \in 1..Len(values) |-> values[j].val])

(* A turn that hands the filter its arguments in reverse order. *)
apply_filter_mutant_reverse(prototype, input, ctx, at) ==
    LET f == get_filter(ctx, prototype.name)
        arguments == evaluate_arguments(prototype.arguments, ctx)
        reversed == [j \in 1..Len(arguments.val) |-> arguments.val[Len(arguments.val) + 1 - j]]
        call == [name |-> prototype.name, at |-> at, found |-> f # <<>>, invoked |-> FALSE]
    IN IF f = <<>>
       THEN [entry |-> Err([error |-> "Unsupported filter", filter |-> prototype.name]),
             call |-> call]
       ELSE IF arguments.res = "Err" THEN [entry |-> arguments, call |-> call]
       ELSE [entry |-> filter(f[1], prototype.name, input, reversed),
             call |-> [name |-> prototype.name, at |-> at, found |-> TRUE, invoked |-> TRUE,
                       input |-> input, arguments |-> reversed]]

(* A turn that evaluates the arguments before it looks the filter up. *)
apply_filter_mutant_order(prototype, input, ctx, at) ==
    LET f == get_filter(ctx, prototype.name)
        arguments == evaluate_arguments(prototype.arguments, ctx)
        call == [name |-> prototype.name, at |-> at, found |-> f # <<>>, invoked |-> FALSE]
    IN IF arguments.res = "Err" THEN [entry |-> arguments, call |-> call]
       ELSE IF f = <<>>
       THEN [entry |-> Err([error |-> "Unsupported filter", filter |-> prototype.name]),
             call |-> call]
       ELSE [entry |-> filter(f[1], prototype.name, input, arguments.val),
             call |-> [name |-> prototype.name, at |-> at, found |-> TRUE, invoked |-> TRUE,
                       input |-> input, arguments |-> arguments.val]]

(* Lines 49-64, one turn of the loop on filter number at: [entry, call], the *)
(* new running value or the failure, and what the turn did.                  *)
apply_filter(prototype, input, ctx, at) ==
    LET f == get_filter(ctx, prototype.name)
        arguments == evaluate_arguments(prototype.arguments, ctx)
        call == [name |-> prototype.name, at |-> at, found |-> f # <<>>, invoked |-> FALSE]
    IN IF f = <<>>
       THEN [entry |-> Err([error |-> "Unsupported filter", filter |-> prototype.name]),
             call |-> call]
       ELSE IF arguments.res = "Err" THEN [entry |-> arguments, call |-> call]
       ELSE [entry |-> filter(f[1], prototype.name, input, arguments.val),
             call |-> [name |-> prototype.name, at |-> at, found |-> TRUE, invoked |-> TRUE,
                       input |-> input, arguments |-> arguments.val]]

(* The outputs of the model.  "a" is bound, "u" and "w" are not; the table   *)
(* holds "f" and "g", which succeed, and "bad", which fails; "x" is missing. *)
ApplyContext ==
    [globals |-> [a |-> Scalar("str", "42")],
     filters |-> [f |-> "ok", g |-> "ok", bad |-> "fail"]]

EntryArguments ==
    {with_literal("str", "s"), Variable_with_literal("a"), Variable_with_literal("u")}

GoodArguments == {with_literal("str", "1"), Variable_with_literal("a")}

ArgumentLists ==
    SeqsUpTo(GoodArguments, MaxArguments)
    \cup {<<Variable_with_literal("u")>>,
          <<with_literal("str", "1"), Variable_with_literal("u")>>,
          <<Variable_with_literal("u"), Variable_with_literal("w")>>}

FilterPrototypes ==
    {FilterPrototype("f", a) : a \in ArgumentLists}
    \cup {FilterPrototype(n, a) : n \in {"g", "bad", "x"},
                                  a \in {<<>>, <<Variable_with_literal("u")>>}}

InitApply ==
    /\ src \in [entry : EntryArguments, filters : SeqsUpTo(FilterPrototypes, MaxFilters)]
    /\ context = ApplyContext
    /\ running = <<>>
    /\ options = NoOptions
    /\ tokens = <<>>
    /\ elements = <<>>
    /\ delimiters = {}
    /\ iter = 0
    /\ ret = <<>>
    /\ calls = <<>>
    /\ pc = "ready"
    /\ op = "none"
    /\ result = <<>>

(* Line 46: the entry is evaluated; its failure is returned. *)
CallApplyFilters ==
    /\ pc = "ready"
    /\ op' = "apply_filters"
    /\ iter' = 0
    /\ IF evaluate(src.entry, context).res = "Ok"
       THEN /\ running' = evaluate(src.entry, context).val
            /\ pc' = "apply"
            /\ UNCHANGED result
       ELSE /\ result' = evaluate(src.entry, context)
            /\ pc' = "returned"
            /\ UNCHANGED running
    /\ UNCHANGED <<options, context, tokens, src, elements, delimiters, ret, calls>>

ApplyFilter ==
    /\ pc = "apply"
    /\ iter < Len(src.filters)
    /\ LET turn == apply_filter(src.filters[iter + 1], running, context, iter + 1)
       IN /\ calls' = Append(calls, turn.call)
          /\ IF turn.entry.res = "Ok"
             THEN /\ running' = turn.entry.val
                  /\ iter' = iter + 1
                  /\ UNCHANGED <<pc, result>>
             ELSE /\ result' = turn.entry
                  /\ pc' = "returned"
                  /\ UNCHANGED <<running, iter>>
    /\ UNCHANGED <<options, context, tokens, src, elements, delimiters, ret, op>>

(* Line 66: Ok(entry). *)
ApplyReturn ==
    /\ pc = "apply"
    /\ iter >= Len(src.filters)
    /\ result' = Ok(running)
    /\ pc' = "returned"
    /\ UNCHANGED <<options, context, running, tokens, src, elements, delimiters, iter, ret, calls, op>>

NextApply == CallApplyFilters \/ ApplyFilter \/ ApplyReturn

SpecApply == InitApply /\ [][NextApply]_vars

----------------------------------------------------------------------------
(* Claims about apply_filters. *)

EntryEvaluates == evaluate(src.entry, context).res = "Ok"

Present(p) == p.name \in DOMAIN context.filters

ArgumentsEvaluate(p) ==
    \A j \in 1..Len(p.arguments) : evaluate(p.arguments[j], context).res = "Ok"

ArgumentValues(p) == [j \in 1..Len(p.arguments) |-> evaluate(p.arguments[j], context).val]

FilterSucceeds(p) == Present(p) /\ context.filters[p.name] = "ok"

(* The value after the first k filters of the chain, each applied to the     *)
(* value before it and to its own argument values.                           *)
RECURSIVE Threaded(_)
Threaded(k) ==
    IF k = 0 THEN evaluate(src.entry, context).val
    ELSE [type |-> "filtered",
          v |-> [name |-> src.filters[k].name,
                 input |-> Threaded(k - 1),
                 arguments |-> ArgumentValues(src.filters[k])]]

(* The invocation of filter k of the chain as the log records it. *)
Invocation(k) ==
    [name |-> src.filters[k].name, at |-> k, found |-> TRUE, invoked |-> TRUE,
     input |-> Threaded(k - 1), arguments |-> ArgumentValues(src.filters[k])]

FailingFilters ==
    {k \in 1..Len(src.filters) :
        ~(ArgumentsEvaluate(src.filters[k]) /\ FilterSucceeds(src.filters[k]))}

(* C13: when the entry and every argument evaluate and every filter is       *)
(* present and succeeds, apply_filters invokes each filter exactly once, in  *)
(* chain order, filter k on the result of filter k-1 (the evaluated entry    *)
(* for k = 1) and on its own arguments evaluated in argument order, and      *)
(* returns the last filter's result; without filters it returns the          *)
(* evaluated entry.                                                          *)
C13_FiltersThreadedInOrder ==
    (Returned("apply_filters") /\ EntryEvaluates /\ FailingFilters = {})
        => /\ result = Ok(Threaded(Len(src.filters)))
           /\ calls = [k \in 1..Len(src.filters) |-> Invocation(k)]

(* C13 witness: a chain of two different filters, the first with two         *)
(* different arguments, has been evaluated.                                  *)
C13_Witness ==
    /\ Returned("apply_filters")
    /\ result.res = "Ok"
    /\ Len(src.filters) = 2
    /\ src.filters[1].name # src.filters[2].name
    /\ Len(src.filters[1].arguments) = 2
    /\ src.filters[1].arguments[1] # src.filters[1].arguments[2]
    /\ Len(calls) = 2

(* The failure of filter p: the missing filter first, then the first         *)
(* argument that fails to evaluate, then the filter's own failure.           *)
FailureOf(p) ==
    IF ~Present(p) THEN [error |-> "Unsupported filter", filter |-> p.name]
    ELSE IF ~ArgumentsEvaluate(p)
    THEN LET failed == {j \in 1..Len(p.arguments) : evaluate(p.arguments[j], context).res = "Err"}
         IN evaluate(p.arguments[Least(failed)], context).err
    ELSE [error |-> "Filter error", name |-> p.name]

(* C14: the evaluation is fail-fast.  A failing entry is returned and no     *)
(* filter is looked up.  Otherwise, with k the first filter that is missing, *)
(* has a failing argument or fails, the failure of filter k is returned and  *)
(* no value, the filters before k have each been invoked once, in order, and *)
(* no later filter is looked up or invoked; a missing filter is Unsupported  *)
(* filter with its name, also when one of its arguments would fail.          *)
C14_ApplyFailFast ==
    /\ \A n \in 1..Len(calls) : calls[n].at = n
    /\ (EntryEvaluates /\ FailingFilters # {}) => Len(calls) <= Least(FailingFilters)
    /\ (Returned("apply_filters") /\ ~EntryEvaluates)
          => (result = evaluate(src.entry, context) /\ result.res = "Err" /\ calls = <<>>)
    /\ (Returned("apply_filters") /\ EntryEvaluates /\ FailingFilters # {})
          => LET k == Least(FailingFilters)
                 p == src.filters[k]
             IN /\ result = Err(FailureOf(p))
                /\ Len(calls) = k
                /\ \A j \in 1..(k - 1) : calls[j] = Invocation(j)
                /\ calls[k].name = p.name
                /\ calls[k].found = Present(p)
                /\ calls[k].invoked = (Present(p) /\ ArgumentsEvaluate(p))

(* C14 witness: a chain whose first filter is missing and has an argument    *)
(* that fails to evaluate, followed by a second filter, has been evaluated.  *)
C14_Witness ==
    /\ Returned("apply_filters")
    /\ Len(src.filters) = 2
    /\ ~Present(src.filters[1])
    /\ ~ArgumentsEvaluate(src.filters[1])
    /\ result = Err([error |-> "Unsupported filter", filter |-> src.filters[1].name])
    /\ Len(calls) = 1

----------------------------------------------------------------------------
(* Claims about the access to a field. *)

Parsed == pc \in {"returned", "rendered"} /\ op = "parse_expression"

Fields == DOMAIN PathObject.v

FieldPath(accessor) ==
    [node |-> "Variable",
     variable |-> Variable(<<Literal(Scalar("str", "a")), accessor>>)]

(* C15: for the object "a" and every field f it has, a.f and a["f"] parse to *)
(* the same path, the root "a" followed by the literal accessor f, and a[i]  *)
(* parses to the root "a" followed by a reference to the variable "i"; a.f   *)
(* and a["f"], and a[i] when "i" is bound to the string f, all evaluate to   *)
(* the value of field f.                                                     *)
C15_PathAccessEquivalence ==
    /\ \A f \in Fields :
          /\ (Parsed /\ tokens \in {DotForm(f), StringForm(f)})
                => result = Ok(FieldPath(Literal(Scalar("str", f))))
          /\ (pc = "rendered" /\ tokens \in {DotForm(f), StringForm(f)})
                => running = Ok(PathObject.v[f])
          /\ (pc = "rendered" /\ tokens = VariableForm /\ context.globals["i"] = Scalar("str", f))
                => running = Ok(PathObject.v[f])
    /\ (Parsed /\ tokens = VariableForm)
          => result = Ok(FieldPath(Variable(<<Literal(Scalar("str", "i"))>>)))

(* C15 witness: a[i] has been parsed and rendered with "i" bound to "c", and *)
(* gave the value of the field "c".                                          *)
C15_Witness ==
    /\ pc = "rendered"
    /\ tokens = VariableForm
    /\ context.globals["i"] = Scalar("str", "c")
    /\ running = Ok(Scalar("int", 7))

----------------------------------------------------------------------------
(* parse with the comment block registered, and the render of a Comment     *)
(* node of the tree it returns.                                              *)

CommentUniverse ==
    {Raw("x"),
     EmptyExpression,
     Tag(<<Identifier("comment")>>),
     Tag(<<Identifier("comment"), Pipe>>),
     Tag(<<Identifier("endcomment")>>),
     Tag(<<Identifier("bogus")>>)}

CommentOptions == [tags |-> {}, blocks |-> {"comment"}]

InitComment ==
    /\ elements \in SeqsUpTo(CommentUniverse, MaxElements)
    /\ options = CommentOptions
    /\ context = <<>>
    /\ running = <<>>
    /\ tokens = <<>>
    /\ src = <<>>
    /\ delimiters = {}
    /\ iter = 0
    /\ ret = <<>>
    /\ calls = <<>>
    /\ pc = "ready"
    /\ op = "none"
    /\ result = <<>>

RenderComment ==
    /\ pc = "returned"
    /\ op = "parse"
    /\ result.res = "Ok"
    /\ \E k \in 1..Len(result.val) :
          /\ result.val[k] = Comment
          /\ running' = Comment_render(result.val[k], context)
    /\ pc' = "rendered"
    /\ UNCHANGED <<options, context, tokens, src, elements, delimiters, iter, ret, calls, op, result>>

NextComment ==
    \/ CallParse
    \/ ParseRawElement
    \/ ParseExpressionElement
    \/ ParseTagElement
    \/ ParseReturn
    \/ RenderComment

SpecComment == InitComment /\ [][NextComment]_vars

----------------------------------------------------------------------------
(* Claims about the comment block. *)

(* What parse_tag collects for the block opened at element i: the elements  *)
(* before the balancing end tag, or the rest of the stream without one.      *)
BodyOf(elems, i, x) ==
    SubSeq(elems, i + 1,
           IF BalancingEnd(elems, i, x) # 0 THEN BalancingEnd(elems, i, x) - 1 ELSE Len(elems))

FailsOnItsOwn(e) ==
    \/ e = EmptyExpression
    \/ (e.el = "Tag" /\ ~Registered(e.tokens[1], options))

C16_Step ==
    (AtElement /\ OpensBlock(Current, options) /\ Current.tokens[1].text = "comment")
        => /\ pc' = "parse"
           /\ ret' = Append(ret, Comment)
           /\ calls'[Len(calls')].arguments = Tail(Current.tokens)
           /\ calls'[Len(calls')].children = BodyOf(elements, iter + 1, "comment")

(* C16: the comment block never parses its body.  Whatever the arguments of  *)
(* the comment tag and whatever the body collected for it, fragments that    *)
(* fail on their own included, the turn of parse at a comment tag adds a     *)
(* Comment node and goes on; a stream that is one comment ... endcomment     *)
(* parses into that one node; the render of a Comment node succeeds with no  *)
(* output.                                                                   *)
C16_CommentNeverParsesItsBody ==
    /\ [][C16_Step]_vars
    /\ []((/\ Returned("parse")
           /\ Len(elements) >= 1
           /\ OpensBlock(elements[1], options)
           /\ BalancingEnd(elements, 1, "comment") = Len(elements))
              => result = Ok(<<Comment>>))
    /\ [](pc = "rendered" => running = Ok(<<>>))

(* C16 witness: a comment around an empty expression and an unregistered tag *)
(* has been parsed into one node, and the node rendered.                     *)
C16_Witness ==
    /\ pc = "rendered"
    /\ Len(elements) = 4
    /\ OpensBlock(elements[1], options)
    /\ elements[2] = EmptyExpression
    /\ elements[3] = Tag(<<Identifier("bogus")>>)
    /\ FailsOnItsOwn(elements[2]) /\ FailsOnItsOwn(elements[3])
    /\ BalancingEnd(elements, 1, "comment") = 4
    /\ result = Ok(<<Comment>>)
    /\ running = Ok(<<>>)

----------------------------------------------------------------------------
(* Claims about a block without its end tag. *)

Unterminated(elems, i, opts) ==
    /\ OpensBlock(elems[i], opts)
    /\ BalancingEnd(elems, i, elems[i].tokens[1].text) = 0

LastUnit == Units(elements, options, 1)[Len(Units(elements, options, 1))]

C17_Step ==
    (AtElement /\ Unterminated(elements, iter + 1, options))
        => /\ iter' = Len(elements)
           /\ Len(calls') = Len(calls) + 1
           /\ calls'[Len(calls')].handler = "block"
           /\ calls'[Len(calls')].name = Current.tokens[1].text
           /\ calls'[Len(calls')].children = SubSeq(elements, iter + 2, Len(elements))
           /\ IF calls'[Len(calls')].ok
              THEN /\ pc' = "parse"
                   /\ ret' = Append(ret, [node |-> "Block",
                                          name |-> Current.tokens[1].text,
                                          arguments |-> Tail(Current.tokens),
                                          children |-> SubSeq(elements, iter + 2, Len(elements))])
              ELSE /\ pc' = "returned"
                   /\ result'.res = "Err"
                   /\ result'.err.error = "block handler"

(* C17: when the stream ends before the end tag that balances the opening    *)
(* tag of a block, parse_tag collects every remaining element as the block's *)
(* children, still dispatches the block's parse with them and raises no      *)
(* error of its own (a failure is the handler's), and leaves the cursor      *)
(* exhausted: the parse ends with the block's node as its last node.         *)
C17_UnterminatedBlock ==
    /\ [][C17_Step]_vars
    /\ []((/\ Returned("parse")
           /\ result.res = "Ok"
           /\ elements # <<>>
           /\ Unterminated(elements, LastUnit.start, options))
              => /\ result.val[Len(result.val)].node = "Block"
                 /\ result.val[Len(result.val)].children
                       = SubSeq(elements, LastUnit.start + 1, Len(elements)))

(* C17 witness: x for for endfor, whose first for has no end tag, has been   *)
(* parsed into the text and the block with the three elements after it.      *)
C17_Witness ==
    /\ Returned("parse")
    /\ Len(elements) = 4
    /\ elements[1].el = "Raw"
    /\ Unterminated(elements, 2, options)
    /\ BalancingEnd(elements, 3, "for") = 4
    /\ result.res = "Ok"
    /\ Len(result.val) = 2
    /\ result.val[2].node = "Block"
    /\ result.val[2].children = SubSeq(elements, 3, 4)

----------------------------------------------------------------------------
(* Claims about the tokens between the entry and the first pipe. *)

(* The tokens before the first pipe, the accessor chain after the first of   *)
(* them, and what follows that chain before the pipe.                        *)
BeforePipe(t) == SubSeq(t, 1, Len(t) - Len(FilterSection(t)))

EntryChain(t) ==
    IF t[1].kind = "Identifier"
    THEN SubSeq(Tail(BeforePipe(t)), 1, ChainLength(Tail(BeforePipe(t))))
    ELSE <<>>

Ignored(t) == Rest(BeforePipe(t), 1 + Len(EntryChain(t)))

(* The same input without the ignored tokens. *)
WithoutIgnored(t) == <<t[1]>> \o EntryChain(t) \o FilterSection(t)

EntryOf(t) ==
    IF t[1].kind = "Identifier"
    THEN Variable(Classified(t[1]).path \o ChainAccessors(Tail(BeforePipe(t))))
    ELSE Classified(t[1])

(* C18: parse_output ignores the tokens between the end of the entry and the *)
(* first pipe.  For a variable entry whose accessor chain stops at a token   *)
(* that is neither '.' nor '[', and for a literal entry whatever follows it, *)
(* the result is the result for the input without those tokens, and a chain  *)
(* returned has the entry alone, with its accessors, as its entry.           *)
C18_TokensBeforeThePipeIgnored ==
    (/\ Returned("parse_output")
     /\ tokens # <<>>
     /\ IsValue(tokens[1])
     /\ (Ignored(tokens) = <<>> \/ tokens[1].kind # "Identifier"
           \/ Ignored(tokens)[1] \notin {Dot, OpenSquare}))
        => /\ result = parse_output(WithoutIgnored(tokens))
           /\ result.res \in {"Ok", "Err"}
           /\ result.res = "Ok" => result.val.entry = EntryOf(tokens)
           /\ result.res = "Err" => FilterBreak(tokens) # <<>>

(* C18 witness: a a | a, a variable followed by an identifier before the     *)
(* pipe, has been parsed into the chain of a | a.                            *)
C18_Witness ==
    /\ Returned("parse_output")
    /\ tokens = <<Identifier("a"), Identifier("a"), Pipe, Identifier("a")>>
    /\ Ignored(tokens) = <<Identifier("a")>>
    /\ result = Ok(FilterChain(Variable_with_literal("a"), <<FilterCall("a", <<>>)>>))

=============================================================================
